---------------------------- MODULE Spec2Model ----------------------------
(***************************************************************************)
(* A model of blue_slate.py: the generator that turns an athlete CSV (a    *)
(* "Bio" section and a "Results" section) and an HTML template into one    *)
(* static page.                                                            *)
(*                                                                         *)
(* Text is modelled character by character: a Python str is a sequence of  *)
(* one-character strings, so that strip, escape, the regular expressions   *)
(* and the date and time parsers are computed as the code computes them.   *)
(* Python's None is the value None below (no str equals it).               *)
(***************************************************************************)
EXTENDS Integers, Sequences, FiniteSets, TLC

VARIABLES
    rows,           \* list(csv.reader(f)): the rows of the CSV file
    sections,       \* what read_sections returned
    bio,            \* what parse_primary_bio returned
    results,        \* what parse_results returned: the result records
    YEAR_FILTER,    \* the module-level season filter (None or a year string)
    template_html,  \* the text of index.template.html
    cards,          \* build_meet_cards: the interpolated values of each card
    cards_html,     \* build_meet_cards: the returned markup
    out_html,       \* main's out_html
    race_series,    \* what build_race_series returned
    time_str,       \* the argument of parse_time_to_seconds
    seconds,        \* what parse_time_to_seconds returned
    pc,             \* main's position
    error           \* the exception that ended the run, "none" while running

vars == <<rows, sections, bio, results, YEAR_FILTER, template_html, cards,
          cards_html, out_html, race_series, time_str, seconds, pc, error>>

-----------------------------------------------------------------------------
(* Bounds of the model *)

MaxRows == 5
MaxRecords == 2
MaxSegments == 4
MaxTimeLen == 4

-----------------------------------------------------------------------------
(* Strings *)

None == <<"None">>

S_Bio == <<"B","i","o">>
S_Results == <<"R","e","s","u","l","t","s">>
S_NA == <<"N","/","A">>
K_AthleteName == <<"A","t","h","l","e","t","e"," ","N","a","m","e">>
K_MeetName == <<"M","e","e","t"," ","N","a","m","e">>
K_Date == <<"D","a","t","e">>
K_Time == <<"T","i","m","e">>
K_Grade == <<"G","r","a","d","e">>
K_OverallPlace == <<"O","v","e","r","a","l","l"," ","P","l","a","c","e">>
K_PhotoFileName == <<"P","h","o","t","o","F","i","l","e","N","a","m","e">>
K_AltText == <<"A","l","t","T","e","x","t">>

Upper == <<"A","B","C","D","E","F","G","H","I","J","K","L","M",
           "N","O","P","Q","R","S","T","U","V","W","X","Y","Z">>
Lower == <<"a","b","c","d","e","f","g","h","i","j","k","l","m",
           "n","o","p","q","r","s","t","u","v","w","x","y","z">>
Digits == <<"0","1","2","3","4","5","6","7","8","9">>

Range(s) == {s[i] : i \in DOMAIN s}

IsDigit(c) == c \in Range(Digits)
DigitVal(c) == (CHOOSE i \in DOMAIN Digits : Digits[i] = c) - 1
IsSpace(c) == c \in {" ", "\t", "\n"}

\* str.upper / str.lower, one character
UpperChar(c) ==
    IF c \in Range(Lower) THEN Upper[CHOOSE i \in DOMAIN Lower : Lower[i] = c] ELSE c
LowerChar(c) ==
    IF c \in Range(Upper) THEN Lower[CHOOSE i \in DOMAIN Upper : Upper[i] = c] ELSE c
StrUpper(s) == [i \in DOMAIN s |-> UpperChar(s[i])]
StrLower(s) == [i \in DOMAIN s |-> LowerChar(s[i])]

RECURSIVE LStrip(_)
LStrip(s) == IF s # <<>> /\ IsSpace(Head(s)) THEN LStrip(Tail(s)) ELSE s

RECURSIVE RStrip(_)
RStrip(s) ==
    IF s # <<>> /\ IsSpace(s[Len(s)]) THEN RStrip(SubSeq(s, 1, Len(s) - 1)) ELSE s

\* str.strip()
Strip(s) == RStrip(LStrip(s))

\* (x or "")
OrEmpty(x) == IF x = None THEN <<>> ELSE x

\* dict.get(key): None when the key is absent
Get(d, k) == IF k \in DOMAIN d THEN d[k] ELSE None

\* s[from:] starts with lit
StartsAt(s, from, lit) ==
    /\ from >= 1
    /\ from + Len(lit) - 1 <= Len(s)
    /\ \A j \in 1..Len(lit) : s[from + j - 1] = lit[j]

RECURSIVE Concat(_)
Concat(ss) == IF ss = <<>> THEN <<>> ELSE Head(ss) \o Concat(Tail(ss))

Max(S) == CHOOSE x \in S : \A y \in S : y <= x
Min(S) == CHOOSE x \in S : \A y \in S : x <= y

-----------------------------------------------------------------------------
(* CSV parsing: Bio + Results sections *)

\* the marker test of read_sections: r and r[0].strip() == name
IsMarkerRow(r, name) == r # <<>> /\ Strip(r[1]) = name

\* a faulty variant of FindMarker: the last matching row instead of the first
RECURSIVE FindMarkerLast(_, _, _)
FindMarkerLast(rs, name, i) ==
    IF i > Len(rs) THEN 0
    ELSE LET later == FindMarkerLast(rs, name, i + 1)
         IN  IF later # 0 THEN later
             ELSE IF IsMarkerRow(rs[i], name) THEN i ELSE 0

\* next((i for i, r in enumerate(rows) if ...), None), scanning from row i.
\* Rows are numbered from 1 here, and 0 stands for None.
RECURSIVE FindMarker(_, _, _)
FindMarker(rs, name, i) ==
    IF i > Len(rs) THEN 0
    ELSE IF IsMarkerRow(rs[i], name) THEN i
    ELSE FindMarker(rs, name, i + 1)

NoSections ==
    [bio_header |-> <<>>, bio_rows |-> <<>>, results_header |-> <<>>, results_rows |-> <<>>]

\* {header[i]: (row[i] if i < len(row) else "") for i in range(len(header))}:
\* a later column of the same name overwrites an earlier one
ZipRow(header, row) ==
    [k \in Range(header) |->
        LET i == Max({j \in DOMAIN header : header[j] = k})
        IN  IF i <= Len(row) THEN row[i] ELSE <<>>]

\* not any((cell or "").strip() for cell in r)
IsBlankRow(r) == \A i \in DOMAIN r : Strip(OrEmpty(r[i])) = <<>>

\* a faulty variant of parse_results: blank rows are kept
RECURSIVE parse_results_keep_blank(_, _)
parse_results_keep_blank(results_header, results_rows) ==
    IF results_rows = <<>> THEN <<>>
    ELSE <<ZipRow(results_header, Head(results_rows))>>
             \o parse_results_keep_blank(results_header, Tail(results_rows))

RECURSIVE parse_results(_, _)
parse_results(results_header, results_rows) ==
    IF results_rows = <<>> THEN <<>>
    ELSE IF IsBlankRow(Head(results_rows))
         THEN parse_results(results_header, Tail(results_rows))
         ELSE <<ZipRow(results_header, Head(results_rows))>>
                  \o parse_results(results_header, Tail(results_rows))

parse_primary_bio(bio_header, bio_rows) ==
    IF bio_rows = <<>> THEN <<>> ELSE ZipRow(bio_header, bio_rows[1])

\* The rows a CSV file is made of in this model
RowKinds ==
    { <<>>,                                  \* an empty line
      << <<" ","B","i","o"," ">> >>,         \* the Bio marker, padded
      << S_Results, <<>> >>,                 \* the Results marker
      << <<>>, <<" ">> >>,                   \* a row of blank cells
      << <<"a">>, S_Bio >>,                  \* data; "Bio" is not its first cell
      << <<>>, <<"b">>, <<"c">> >>,          \* data, first cell blank
      << <<"B","i","o","s">> >> }            \* data, no marker

AppendRow ==
    /\ pc = "rows"
    /\ Len(rows) < MaxRows
    /\ \E r \in RowKinds : rows' = Append(rows, r)
    /\ UNCHANGED <<sections, bio, results, YEAR_FILTER, template_html, cards,
                   cards_html, out_html, race_series, time_str, seconds, pc, error>>

ReadSections ==
    /\ pc = "rows"
    /\ LET bio_marker == FindMarker(rows, S_Bio, 1)
           results_marker == FindMarker(rows, S_Results, 1)
       IN  IF bio_marker = 0 \/ results_marker = 0
           THEN /\ pc' = "failed"
                /\ error' = "ValueError"
                /\ UNCHANGED sections
           ELSE IF bio_marker + 1 > Len(rows) \/ results_marker + 1 > Len(rows)
           THEN /\ pc' = "failed"
                /\ error' = "IndexError"
                /\ UNCHANGED sections
           ELSE /\ sections' =
                      [bio_header |-> rows[bio_marker + 1],
                       bio_rows |-> SubSeq(rows, bio_marker + 2, results_marker - 1),
                       results_header |-> rows[results_marker + 1],
                       results_rows |-> SubSeq(rows, results_marker + 2, Len(rows))]
                /\ pc' = "sections"
                /\ UNCHANGED error
    /\ UNCHANGED <<rows, bio, results, YEAR_FILTER, template_html, cards,
                   cards_html, out_html, race_series, time_str, seconds>>

ParsePrimaryBio ==
    /\ pc = "sections"
    /\ bio' = parse_primary_bio(sections.bio_header, sections.bio_rows)
    /\ pc' = "bio"
    /\ UNCHANGED <<rows, sections, results, YEAR_FILTER, template_html, cards,
                   cards_html, out_html, race_series, time_str, seconds, error>>

ParseResults ==
    /\ pc = "bio"
    /\ results' = parse_results(sections.results_header, sections.results_rows)
    /\ pc' = "results"
    /\ UNCHANGED <<rows, sections, bio, YEAR_FILTER, template_html, cards,
                   cards_html, out_html, race_series, time_str, seconds, error>>

InitCsv ==
    /\ rows = <<>>
    /\ sections = NoSections
    /\ bio = <<>>
    /\ results = <<>>
    /\ YEAR_FILTER = None
    /\ template_html = <<>>
    /\ cards = <<>>
    /\ cards_html = <<>>
    /\ out_html = <<>>
    /\ race_series = <<>>
    /\ time_str = <<>>
    /\ seconds = <<>>
    /\ pc = "rows"
    /\ error = "none"

NextCsv == AppendRow \/ ReadSections \/ ParsePrimaryBio \/ ParseResults

SpecCsv == InitCsv /\ [][NextCsv]_vars

-----------------------------------------------------------------------------
(* Helpers: race times *)

\* A number of seconds is <<whole, frac>>: the whole seconds and the digits after
\* the decimal point without trailing zeros (323.4 is <<323, <<"4">>>>), so that
\* 5.0, 5. and 5 are the same value. Absent is Python's None.
Absent == <<>>

AllDigits(s) == \A i \in DOMAIN s : IsDigit(s[i])

RECURSIVE DigitsValue(_, _)
DigitsValue(s, acc) ==
    IF s = <<>> THEN acc ELSE DigitsValue(Tail(s), acc * 10 + DigitVal(Head(s)))

RECURSIVE DropTrailingZeros(_)
DropTrailingZeros(s) ==
    IF s # <<>> /\ s[Len(s)] = "0" THEN DropTrailingZeros(SubSeq(s, 1, Len(s) - 1)) ELSE s

\* int(s) raised ValueError? int() ignores surrounding whitespace; signs and
\* underscores are outside the alphabet of the model.
IntFails(s) == LET u == Strip(s) IN u = <<>> \/ ~AllDigits(u)
IntOf(s) == DigitsValue(Strip(s), 0)

\* float(s) raised ValueError? digits with at most one point and at least one
\* digit; exponents, signs, inf and nan are outside the alphabet of the model.
FloatFails(s) ==
    LET u == Strip(s)
        points == {i \in DOMAIN u : u[i] = "."}
    IN  \/ Cardinality(points) > 1
        \/ \E i \in DOMAIN u : ~IsDigit(u[i]) /\ u[i] # "."
        \/ ~\E i \in DOMAIN u : IsDigit(u[i])
FloatOf(s) ==
    LET u == Strip(s)
        points == {i \in DOMAIN u : u[i] = "."}
        dot == IF points = {} THEN Len(u) + 1 ELSE Min(points)
    IN  <<DigitsValue(SubSeq(u, 1, dot - 1), 0),
          DropTrailingZeros(SubSeq(u, dot + 1, Len(u)))>>

\* str.count(":")
CountColons(t) == Cardinality({i \in DOMAIN t : t[i] = ":"})

\* a faulty variant of parse_time_to_seconds: hours are counted as minutes
parse_time_hours_as_minutes(time_arg) ==
    LET t == Strip(OrEmpty(time_arg))
        colons == {i \in DOMAIN t : t[i] = ":"}
    IN  IF t = <<>> \/ StrUpper(t) = S_NA THEN Absent
        ELSE IF CountColons(t) = 2 THEN
            LET i == Min(colons)
                j == Max(colons)
                a == SubSeq(t, 1, i - 1)
                b == SubSeq(t, i + 1, j - 1)
                c == SubSeq(t, j + 1, Len(t))
            IN  IF IntFails(a) \/ IntFails(b) \/ FloatFails(c) THEN Absent
                ELSE <<IntOf(a) * 60 + IntOf(b) * 60 + FloatOf(c)[1], FloatOf(c)[2]>>
        ELSE IF CountColons(t) = 1 THEN
            LET i == Min(colons)
                a == SubSeq(t, 1, i - 1)
                b == SubSeq(t, i + 1, Len(t))
            IN  IF IntFails(a) \/ FloatFails(b) THEN Absent
                ELSE <<IntOf(a) * 60 + FloatOf(b)[1], FloatOf(b)[2]>>
        ELSE IF FloatFails(t) THEN Absent ELSE FloatOf(t)

parse_time_to_seconds(time_arg) ==
    LET t == Strip(OrEmpty(time_arg))
        colons == {i \in DOMAIN t : t[i] = ":"}
    IN  IF t = <<>> \/ StrUpper(t) = S_NA THEN Absent
        ELSE IF CountColons(t) = 2 THEN
            \* a, b, c = t.split(":")
            LET i == Min(colons)
                j == Max(colons)
                a == SubSeq(t, 1, i - 1)
                b == SubSeq(t, i + 1, j - 1)
                c == SubSeq(t, j + 1, Len(t))
            IN  IF IntFails(a) \/ IntFails(b) \/ FloatFails(c) THEN Absent
                ELSE <<IntOf(a) * 3600 + IntOf(b) * 60 + FloatOf(c)[1], FloatOf(c)[2]>>
        ELSE IF CountColons(t) = 1 THEN
            \* a, b = t.split(":", 1)
            LET i == Min(colons)
                a == SubSeq(t, 1, i - 1)
                b == SubSeq(t, i + 1, Len(t))
            IN  IF IntFails(a) \/ FloatFails(b) THEN Absent
                ELSE <<IntOf(a) * 60 + FloatOf(b)[1], FloatOf(b)[2]>>
        ELSE IF FloatFails(t) THEN Absent ELSE FloatOf(t)

T_5_23_4 == <<"5",":","2","3",".","4">>
T_1_05_00 == <<"1",":","0","5",":","0","0">>
T_45 == <<"4","5">>
T_na == <<"n","/","a">>
T_1_2_3_4 == <<"1",":","2",":","3",":","4">>
T_1_5_05_00 == <<"1",".","5",":","0","5",":","0","0">>

TimeChars == {"0", "1", "5", ":", ".", " ", "x"}

TimeInputs ==
    UNION {[1..n -> TimeChars] : n \in 0..MaxTimeLen}
        \cup {None, S_NA, T_na, T_5_23_4, T_1_05_00, T_45, T_1_2_3_4, T_1_5_05_00}

ParseTime ==
    /\ pc = "time"
    /\ seconds' = parse_time_to_seconds(time_str)
    /\ pc' = "time_done"
    /\ UNCHANGED <<rows, sections, bio, results, YEAR_FILTER, template_html, cards,
                   cards_html, out_html, race_series, time_str, error>>

InitTime ==
    /\ rows = <<>>
    /\ sections = NoSections
    /\ bio = <<>>
    /\ results = <<>>
    /\ YEAR_FILTER = None
    /\ template_html = <<>>
    /\ cards = <<>>
    /\ cards_html = <<>>
    /\ out_html = <<>>
    /\ race_series = <<>>
    /\ time_str \in TimeInputs
    /\ seconds = Absent
    /\ pc = "time"
    /\ error = "none"

NextTime == ParseTime

SpecTime == InitTime /\ [][NextTime]_vars

-----------------------------------------------------------------------------
(* Helpers: fields, years, images, escaping *)

IMAGE_BASE ==
    <<"h","t","t","p","s",":","/","/","s","i","3","3","9",".","g","i","t","h","u","b",".","i",
      "o","/","C","l","i","e","n","t","D","a","t","a","/","2","1","6","1","5","2","7","4","/">>
DEFAULT_IMAGE_URL ==
    <<"h","t","t","p","s",":","/","/","r","a","w",".","g","i","t","h","u","b","u","s","e","r",
      "c","o","n","t","e","n","t",".","c","o","m","/","v","a","n","n","e","s","s","c","h","i",
      "a","/","S","I","3","3","8","/","m","a","i","n","/","i","m","a","g","e","s","/","s","k",
      "y","l","i","n","e","_","l","o","g","o",".","j","p","g">>

\* safe(val, default="N/A")
safe(val) ==
    LET v == Strip(OrEmpty(val)) IN IF v # <<>> THEN v ELSE S_NA

\* \w of the regular expression, on the alphabet of the model
IsWordChar(c) == IsDigit(c) \/ c \in Range(Upper) \/ c \in Range(Lower) \/ c = "_"

\* \b(20\d{2})\b matches at position i of s
YearAt(s, i) ==
    /\ i + 3 <= Len(s)
    /\ s[i] = "2" /\ s[i + 1] = "0" /\ IsDigit(s[i + 2]) /\ IsDigit(s[i + 3])
    /\ (i = 1 \/ ~IsWordChar(s[i - 1]))
    /\ (i + 4 > Len(s) \/ ~IsWordChar(s[i + 4]))

\* re.search: the leftmost match at or after position i, "" when there is none
RECURSIVE SearchYear(_, _)
SearchYear(s, i) ==
    IF i > Len(s) THEN <<>>
    ELSE IF YearAt(s, i) THEN SubSeq(s, i, i + 3)
    ELSE SearchYear(s, i + 1)

\* a faulty variant of year_from_date: any four digits count as a year
RECURSIVE SearchAnyYear(_, _)
SearchAnyYear(s, i) ==
    IF i + 3 > Len(s) THEN <<>>
    ELSE IF AllDigits(SubSeq(s, i, i + 3)) THEN SubSeq(s, i, i + 3)
    ELSE SearchAnyYear(s, i + 1)
year_from_any_digits(date_str) == SearchAnyYear(date_str, 1)

year_from_date(date_str) ==
    IF date_str = <<>> THEN <<>> ELSE SearchYear(date_str, 1)

\* the season test of build_race_series and build_meet_cards
PassesYearFilter(r) ==
    YEAR_FILTER = None \/ year_from_date(Strip(OrEmpty(Get(r, K_Date)))) = YEAR_FILTER

image_url(photo_filename) ==
    LET fn == Strip(OrEmpty(photo_filename))
    IN  IF fn = <<>> \/ StrUpper(fn) = S_NA
        THEN (IF Strip(DEFAULT_IMAGE_URL) # <<>> THEN Strip(DEFAULT_IMAGE_URL) ELSE <<>>)
        ELSE IMAGE_BASE \o fn

image_alt_text(record, fallback) ==
    LET alt == Strip(OrEmpty(Get(record, K_AltText)))
    IN  IF alt # <<>> THEN alt ELSE fallback

\* html.escape(s), quote=True
EscapeChar(c) ==
    CASE c = "&" -> <<"&","a","m","p",";">>
      [] c = "<" -> <<"&","l","t",";">>
      [] c = ">" -> <<"&","g","t",";">>
      [] c = "\"" -> <<"&","q","u","o","t",";">>
      [] c = "'" -> <<"&","#","x","2","7",";">>
      [] OTHER -> <<c>>
escape(s) == Concat([i \in DOMAIN s |-> EscapeChar(s[i])])

\* str(i) for i >= 0
RECURSIVE IntToStr(_)
IntToStr(i) ==
    IF i < 10 THEN <<Digits[i + 1]>> ELSE IntToStr(i \div 10) \o <<Digits[(i % 10) + 1]>>

-----------------------------------------------------------------------------
(* Helpers: dates (datetime.strptime, date.isoformat) *)

MonthNames ==
    <<
      <<"j","a","n","u","a","r","y">>,
      <<"f","e","b","r","u","a","r","y">>,
      <<"m","a","r","c","h">>,
      <<"a","p","r","i","l">>,
      <<"m","a","y">>,
      <<"j","u","n","e">>,
      <<"j","u","l","y">>,
      <<"a","u","g","u","s","t">>,
      <<"s","e","p","t","e","m","b","e","r">>,
      <<"o","c","t","o","b","e","r">>,
      <<"n","o","v","e","m","b","e","r">>,
      <<"d","e","c","e","m","b","e","r">>
    >>

\* the formats tried by build_race_series, in order; "Y", "y", "m", "d", "b" and
\* "B" stand for the directives, " " for a run of whitespace, and the other
\* characters for themselves
DateFormats ==
    << <<"Y","-","m","-","d">>,
       <<"m","/","d","/","Y">>,
       <<"m","/","d","/","y">>,
       <<"b"," ","d"," ","Y">>,
       <<"B"," ","d"," ","Y">> >>

NoDate == [y |-> 0, m |-> 0, d |-> 0]

DigitsAt(s, pos, n) ==
    pos + n - 1 <= Len(s) /\ \A j \in 0..(n - 1) : IsDigit(s[pos + j])

\* the widths n for which the directive's pattern matches s at pos:
\*   m is 1[0-2] | 0[1-9] | [1-9];  d is 3[01] | [12]\d | 0[1-9] | [1-9] | " "[1-9]
MonthWidths(s, pos) ==
    {n \in {1, 2} :
        /\ pos + n - 1 <= Len(s)
        /\ IF n = 1 THEN IsDigit(s[pos]) /\ s[pos] # "0"
           ELSE \/ s[pos] = "1" /\ s[pos + 1] \in {"0", "1", "2"}
                \/ s[pos] = "0" /\ IsDigit(s[pos + 1]) /\ s[pos + 1] # "0"}
DayWidths(s, pos) ==
    {n \in {1, 2} :
        /\ pos + n - 1 <= Len(s)
        /\ IF n = 1 THEN IsDigit(s[pos]) /\ s[pos] # "0"
           ELSE \/ s[pos] = "3" /\ s[pos + 1] \in {"0", "1"}
                \/ s[pos] \in {"1", "2"} /\ IsDigit(s[pos + 1])
                \/ s[pos] \in {"0", " "} /\ IsDigit(s[pos + 1]) /\ s[pos + 1] # "0"}

\* the fields of every way the rest of the format matches s from pos to its end
\* (a match that stops short is "unconverted data remains")
RECURSIVE StrpMatch(_, _, _, _)
StrpMatch(s, pos, fmt, acc) ==
    IF fmt = <<>> THEN (IF pos = Len(s) + 1 THEN {acc} ELSE {})
    ELSE
      LET f == Head(fmt)
          rest == Tail(fmt)
      IN  CASE f = "Y" ->
                 IF DigitsAt(s, pos, 4)
                 THEN StrpMatch(s, pos + 4, rest,
                                [acc EXCEPT !.y = DigitsValue(SubSeq(s, pos, pos + 3), 0)])
                 ELSE {}
            [] f = "y" ->
                 IF DigitsAt(s, pos, 2)
                 THEN LET v == DigitsValue(SubSeq(s, pos, pos + 1), 0)
                      IN  StrpMatch(s, pos + 2, rest,
                                    [acc EXCEPT !.y = IF v <= 68 THEN 2000 + v ELSE 1900 + v])
                 ELSE {}
            [] f = "m" ->
                 UNION {StrpMatch(s, pos + n, rest,
                                  [acc EXCEPT !.m = DigitsValue(SubSeq(s, pos, pos + n - 1), 0)])
                        : n \in MonthWidths(s, pos)}
            [] f = "d" ->
                 UNION {StrpMatch(s, pos + n, rest,
                                  [acc EXCEPT !.d = DigitsValue(Strip(SubSeq(s, pos, pos + n - 1)), 0)])
                        : n \in DayWidths(s, pos)}
            [] f = "b" ->
                 UNION {StrpMatch(s, pos + 3, rest, [acc EXCEPT !.m = k])
                        : k \in {k \in DOMAIN MonthNames :
                                    pos + 2 <= Len(s)
                                    /\ StrLower(SubSeq(s, pos, pos + 2)) = SubSeq(MonthNames[k], 1, 3)}}
            [] f = "B" ->
                 UNION {StrpMatch(s, pos + Len(MonthNames[k]), rest, [acc EXCEPT !.m = k])
                        : k \in {k \in DOMAIN MonthNames :
                                    LET e == pos + Len(MonthNames[k]) - 1
                                    IN  e <= Len(s) /\ StrLower(SubSeq(s, pos, e)) = MonthNames[k]}}
            [] f = " " ->
                 UNION {StrpMatch(s, pos + n, rest, acc)
                        : n \in {n \in 1..(Len(s) - pos + 1) :
                                    \A j \in 0..(n - 1) : IsSpace(s[pos + j])}}
            [] OTHER ->
                 IF pos <= Len(s) /\ s[pos] = f THEN StrpMatch(s, pos + 1, rest, acc) ELSE {}

IsLeap(y) == (y % 4 = 0 /\ y % 100 # 0) \/ y % 400 = 0
DaysInMonth(y, m) ==
    IF m = 2 THEN (IF IsLeap(y) THEN 29 ELSE 28)
    ELSE IF m \in {4, 6, 9, 11} THEN 30 ELSE 31

\* the dates datetime.strptime(ds, fmt).date() can return: none when it raises
Strptime(ds, fmt) ==
    {dt \in StrpMatch(ds, 1, fmt, NoDate) :
        dt.y >= 1 /\ dt.m \in 1..12 /\ dt.d >= 1 /\ dt.d <= DaysInMonth(dt.y, dt.m)}

\* the date of the first format that parses ds, NoDate when none does
RECURSIVE FirstParse(_, _)
FirstParse(ds, k) ==
    IF k > Len(DateFormats) THEN NoDate
    ELSE LET parsed == Strptime(ds, DateFormats[k])
         IN  IF parsed # {} THEN CHOOSE dt \in parsed : TRUE
             ELSE FirstParse(ds, k + 1)

Pad(n, width) ==
    LET t == IntToStr(n) IN [i \in 1..(width - Len(t)) |-> "0"] \o t

\* date.isoformat()
isoformat(dt) == Pad(dt.y, 4) \o <<"-">> \o Pad(dt.m, 2) \o <<"-">> \o Pad(dt.d, 2)

\* the _sort value of a point
SortKeyOf(ds) ==
    LET dt == FirstParse(ds, 1) IN IF dt = NoDate THEN <<>> ELSE isoformat(dt)

\* ord(c) for the characters of a sort key
Ord(c) == IF c = "-" THEN 45 ELSE 48 + DigitVal(c)

\* a < b for str
RECURSIVE StrLess(_, _)
StrLess(a, b) ==
    IF b = <<>> THEN FALSE
    ELSE IF a = <<>> THEN TRUE
    ELSE IF Head(a) = Head(b) THEN StrLess(Tail(a), Tail(b))
    ELSE Ord(Head(a)) < Ord(Head(b))

\* a faulty variant of KeyLess: the keys are compared as text only, so "" sorts first
KeyLessTextOnly(a, b) == StrLess(a, b)

\* (a == "", a) < (b == "", b): False sorts before True, then the text decides
KeyLess(a, b) ==
    IF (a = <<>>) # (b = <<>>) THEN b = <<>> ELSE StrLess(a, b)

\* list.sort(key=...) is stable: each point goes after the points sorted so far
\* whose key is not greater than its own
RECURSIVE InsertPoint(_, _)
InsertPoint(sorted, p) ==
    IF sorted = <<>> THEN <<p>>
    ELSE IF KeyLess(p._sort, sorted[Len(sorted)]._sort)
         THEN InsertPoint(SubSeq(sorted, 1, Len(sorted) - 1), p) \o <<sorted[Len(sorted)]>>
         ELSE sorted \o <<p>>

RECURSIVE SortPoints(_, _)
SortPoints(points, sorted) ==
    IF points = <<>> THEN sorted
    ELSE SortPoints(Tail(points), InsertPoint(sorted, Head(points)))

-----------------------------------------------------------------------------
(* The fixed text of the generated markup *)

CardText1 ==
    <<"\n"," "," "," "," "," "," "," "," ","<","a","r","t","i","c","l","e"," ","c","l","a","s",
      "s","=","\"","m","e","e","t","-","c","a","r","d","\""," ","a","r","i","a","-","l","a","b",
      "e","l","l","e","d","b","y","=","\"">>
CardText2 ==
    <<"\"",">","\n"," "," "," "," "," "," "," "," "," "," ","<","h","3"," ","i","d","=","\"">>
CardText3 ==
    <<"\"",">">>
CardText4 ==
    <<"<","/","h","3",">","\n","\n"," "," "," "," "," "," "," "," "," "," ","<","d","i","v"," ",
      "c","l","a","s","s","=","\"","s","p","a","c","e","r","\"",">","\n"," "," "," "," "," ",
      " "," "," "," "," "," "," ">>
ImgText1 ==
    <<"<","i","m","g"," ","s","r","c","=","\"">>
ImgText2 ==
    <<"\""," ","a","l","t","=","\"">>
ImgText3 ==
    <<"\""," ","l","o","a","d","i","n","g","=","\"","l","a","z","y","\""," ","d","e","c","o",
      "d","i","n","g","=","\"","a","s","y","n","c","\"",">">>
NoImageText ==
    <<"<","p",">","N","o"," ","i","m","a","g","e"," ","a","v","a","i","l","a","b","l","e",".",
      "<","/","p",">">>
CardText5 ==
    <<"\n"," "," "," "," "," "," "," "," "," "," ","<","/","d","i","v",">","\n","\n"," "," ",
      " "," "," "," "," "," "," "," ","<","b","u","t","t","o","n"," ","t","y","p","e","=","\"",
      "b","u","t","t","o","n","\""," ","c","l","a","s","s","=","\"","o","p","e","n","-","p","a",
      "n","e","l","\""," ","a","r","i","a","-","e","x","p","a","n","d","e","d","=","\"","f","a",
      "l","s","e","\""," ","a","r","i","a","-","c","o","n","t","r","o","l","s","=","\"">>
CardText6 ==
    <<"\"",">","\n"," "," "," "," "," "," "," "," "," "," "," "," ","M","o","r","e"," ","i","n",
      "f","o","\n"," "," "," "," "," "," "," "," "," "," ","<","/","b","u","t","t","o","n",">",
      "\n","\n"," "," "," "," "," "," "," "," "," "," ","<","d","i","v"," ","i","d","=","\"">>
CardText7 ==
    <<"\""," ","c","l","a","s","s","=","\"","r","a","c","e","-","d","e","t","a","i","l","s",
      "\""," ","h","i","d","d","e","n",">","\n"," "," "," "," "," "," "," "," "," "," "," "," ",
      "<","p",">","<","s","t","r","o","n","g",">","D","a","t","e",":","<","/","s","t","r","o",
      "n","g",">"," ">>
CardText8 ==
    <<"<","/","p",">","\n"," "," "," "," "," "," "," "," "," "," "," "," ","<","p",">","<","s",
      "t","r","o","n","g",">","T","i","m","e",":","<","/","s","t","r","o","n","g",">"," ">>
CardText9 ==
    <<"<","/","p",">","\n"," "," "," "," "," "," "," "," "," "," "," "," ","<","p",">","<","s",
      "t","r","o","n","g",">","G","r","a","d","e",":","<","/","s","t","r","o","n","g",">"," ">>
CardText10 ==
    <<"<","/","p",">","\n"," "," "," "," "," "," "," "," "," "," "," "," ","<","p",">","<","s",
      "t","r","o","n","g",">","O","v","e","r","a","l","l"," ","p","l","a","c","e",":","<","/",
      "s","t","r","o","n","g",">"," ">>
CardText11 ==
    <<"<","/","p",">","\n"," "," "," "," "," "," "," "," "," "," ","<","/","d","i","v",">","\n",
      " "," "," "," "," "," "," "," ","<","/","a","r","t","i","c","l","e",">","\n">>
NoMeetsText ==
    <<"<","p",">","N","o"," ","m","e","e","t","s"," ","f","o","u","n","d",".","<","/","p",">">>
S_RaceDetails ==
    <<"r","a","c","e","-","d","e","t","a","i","l","s","-">>
S_Meet ==
    <<"m","e","e","t","-">>
S_Title ==
    <<"-","t","i","t","l","e">>
S_PhotoFrom ==
    <<"P","h","o","t","o"," ","f","r","o","m"," ">>
S_Dot ==
    <<".">>
ScriptText1 ==
    <<"\n","<","s","c","r","i","p","t"," ","i","d","=","\"","r","a","c","e","-","d","a","t","a",
      "\""," ","t","y","p","e","=","\"","a","p","p","l","i","c","a","t","i","o","n","/","j","s",
      "o","n","\"",">">>
ScriptText2 ==
    <<"<","/","s","c","r","i","p","t",">","\n","<","s","c","r","i","p","t",">","\n">>
ScriptText3 ==
    <<"<","/","s","c","r","i","p","t",">","\n">>
S_BodyClose ==
    <<"<","/","b","o","d","y",">">>
S_H1Open ==
    <<"<","h","1",">">>
S_H1Close ==
    <<"<","/","h","1",">">>
S_NL ==
    <<"\n">>
GridId ==
    <<"i","d","=","\"","m","e","e","t","-","g","r","i","d","\"">>
PanelId ==
    <<"i","d","=","\"","p","e","r","f","o","r","m","a","n","c","e","-","p","a","n","e","l","\"">>
S_DivOpen ==
    <<"<","d","i","v">>
J_date ==
    <<"\"","d","a","t","e","\"",":"," ">>
J_meet ==
    <<"\"","m","e","e","t","\"",":"," ">>
J_time ==
    <<"\"","t","i","m","e","\"",":"," ">>
J_seconds ==
    <<"\"","s","e","c","o","n","d","s","\"",":"," ">>
J_null ==
    <<"n","u","l","l">>
J_sep ==
    <<","," ">>

-----------------------------------------------------------------------------
(* Build meet cards with toggle details *)

\* a faulty variant of details_id: the index is left out
details_id_unnumbered(i) == S_RaceDetails

\* f"race-details-{i}" and f"meet-{i}-title"
details_id(i) == S_RaceDetails \o IntToStr(i)
title_id(i) == S_Meet \o IntToStr(i) \o S_Title

\* The values interpolated into the markup of card i, one field per place of the
\* f-string (title_id and details_id are each interpolated twice)
MakeCard(i, r) ==
    LET meet == safe(Get(r, K_MeetName))
        date == safe(Get(r, K_Date))
        time == safe(Get(r, K_Time))
        grade == safe(Get(r, K_Grade))
        place == safe(Get(r, K_OverallPlace))
        photo_fn == Strip(OrEmpty(Get(r, K_PhotoFileName)))
        img_src == image_url(photo_fn)
    IN  [labelledby |-> title_id(i),
         heading_id |-> title_id(i),
         heading |-> escape(meet),
         has_img |-> img_src # <<>>,
         img_src |-> escape(img_src),
         img_alt |-> image_alt_text(r, S_PhotoFrom \o meet \o S_Dot),
         aria_controls |-> details_id(i),
         panel_id |-> details_id(i),
         date |-> escape(date),
         time |-> escape(time),
         grade |-> escape(grade),
         place |-> escape(place)]

\* the text of one card
RenderCard(c) ==
    CardText1 \o c.labelledby \o CardText2 \o c.heading_id \o CardText3 \o c.heading
    \o CardText4
    \o (IF c.has_img THEN ImgText1 \o c.img_src \o ImgText2 \o c.img_alt \o ImgText3
        ELSE NoImageText)
    \o CardText5 \o c.aria_controls \o CardText6 \o c.panel_id \o CardText7 \o c.date
    \o CardText8 \o c.time \o CardText9 \o c.grade \o CardText10 \o c.place \o CardText11

\* the cards list of build_meet_cards
MeetCards(records) ==
    LET filtered == SelectSeq(records, PassesYearFilter)
    IN  [i \in DOMAIN filtered |-> MakeCard(i, filtered[i])]

\* what build_meet_cards returns
build_meet_cards(records) ==
    LET cs == MeetCards(records)
    IN  IF cs = <<>> THEN NoMeetsText ELSE Concat([i \in DOMAIN cs |-> RenderCard(cs[i])])

-----------------------------------------------------------------------------
(* The race series and its JSON text *)

MakePoint(r) ==
    LET time == safe(Get(r, K_Time))
    IN  [date |-> safe(Get(r, K_Date)),
         meet |-> safe(Get(r, K_MeetName)),
         time |-> time,
         seconds |-> parse_time_to_seconds(time),
         _sort |-> SortKeyOf(Strip(OrEmpty(Get(r, K_Date))))]

build_race_series(records) ==
    LET filtered == SelectSeq(records, PassesYearFilter)
        points == [i \in DOMAIN filtered |-> MakePoint(filtered[i])]
        sorted == SortPoints(points, <<>>)
    IN  [i \in DOMAIN sorted |->
            [date |-> sorted[i].date, meet |-> sorted[i].meet,
             time |-> sorted[i].time, seconds |-> sorted[i].seconds]]

\* json.dumps of a str: quotes, backslashes, newlines and tabs are escaped
JsonChar(c) ==
    CASE c = "\"" -> <<"\\", "\"">>
      [] c = "\\" -> <<"\\", "\\">>
      [] c = "\n" -> <<"\\", "n">>
      [] c = "\t" -> <<"\\", "t">>
      [] OTHER -> <<c>>
JsonString(t) == <<"\"">> \o Concat([i \in DOMAIN t |-> JsonChar(t[i])]) \o <<"\"">>

\* json.dumps of the seconds: null, or repr of the float
JsonSeconds(sec) ==
    IF sec = Absent THEN J_null
    ELSE IntToStr(sec[1]) \o S_Dot \o (IF sec[2] = <<>> THEN <<"0">> ELSE sec[2])

JsonPoint(pt) ==
    <<"{">> \o J_date \o JsonString(pt.date) \o J_sep \o J_meet \o JsonString(pt.meet) \o J_sep
    \o J_time \o JsonString(pt.time) \o J_sep \o J_seconds \o JsonSeconds(pt.seconds) \o <<"}">>

RECURSIVE JsonItems(_)
JsonItems(series) ==
    IF series = <<>> THEN <<>>
    ELSE IF Len(series) = 1 THEN JsonPoint(series[1])
    ELSE JsonPoint(series[1]) \o J_sep \o JsonItems(Tail(series))

\* json.dumps(race_series)
JsonDumps(series) == <<"[">> \o JsonItems(series) \o <<"]">>

-----------------------------------------------------------------------------
(* Inject cards into the template *)

\* <div\s+id="..."[^>]*> matches s at position i: the position of its closing ">",
\* 0 when it does not match
RECURSIVE SpaceRun(_, _)
SpaceRun(s, i) == IF i <= Len(s) /\ IsSpace(s[i]) THEN 1 + SpaceRun(s, i + 1) ELSE 0

TagEndAt(s, idtext, i) ==
    IF ~StartsAt(s, i, S_DivOpen) THEN 0
    ELSE LET n == SpaceRun(s, i + Len(S_DivOpen))
             k == i + Len(S_DivOpen) + n
         IN  IF n = 0 \/ ~StartsAt(s, k, idtext) THEN 0
             ELSE LET closes == {j \in (k + Len(idtext))..Len(s) : s[j] = ">"}
                  IN  IF closes = {} THEN 0 ELSE Min(closes)

\* re.search: the leftmost match, as [start, end]; start is 0 when there is no
\* match
SearchTag(s, idtext) ==
    LET starts == {i \in DOMAIN s : TagEndAt(s, idtext, i) # 0}
    IN  IF starts = {} THEN [start |-> 0, end |-> 0]
        ELSE [start |-> Min(starts), end |-> TagEndAt(s, idtext, Min(starts))]

Raised(kind) == [raised |-> kind, value |-> <<>>]
Returned(text) == [raised |-> "none", value |-> text]

\* a faulty variant of inject_cards_into_template: the text between the grid tag and the
\* panel is kept, and the cards are put in front of the panel
inject_cards_keep_old(template, cards_text) ==
    LET meet_grid_open == SearchTag(template, GridId)
        panel_start == SearchTag(template, PanelId)
    IN  IF meet_grid_open.start = 0 \/ panel_start.start = 0 THEN Raised("ValueError")
        ELSE Returned(SubSeq(template, 1, panel_start.start - 1) \o S_NL \o cards_text
                      \o S_NL \o SubSeq(template, panel_start.start, Len(template)))

\* a faulty variant of inject_cards_into_template: without the panel, the cards are
\* appended to the grid tag and the result is returned
inject_cards_lenient(template, cards_text) ==
    LET meet_grid_open == SearchTag(template, GridId)
        panel_start == SearchTag(template, PanelId)
    IN  IF meet_grid_open.start = 0 THEN Raised("ValueError")
        ELSE IF panel_start.start = 0
        THEN Returned(SubSeq(template, 1, meet_grid_open.end) \o S_NL \o cards_text)
        ELSE Returned(SubSeq(template, 1, meet_grid_open.end) \o S_NL \o cards_text
                      \o S_NL \o SubSeq(template, panel_start.start, Len(template)))

\* inject_cards_into_template: the exception it raises, or the text it returns
inject_cards_into_template(template, cards_text) ==
    LET meet_grid_open == SearchTag(template, GridId)
        panel_start == SearchTag(template, PanelId)
    IN  IF meet_grid_open.start = 0 THEN Raised("ValueError")
        ELSE IF panel_start.start = 0 THEN Raised("ValueError")
        ELSE LET start_idx == meet_grid_open.end
                 before == SubSeq(template, 1, start_idx)
                 panel_and_after == SubSeq(template, panel_start.start, Len(template))
             IN  Returned(before \o S_NL \o cards_text \o S_NL \o panel_and_after)

\* The script block. The JavaScript of lines 240-328 is constant text and is left
\* out; the block is the payload element followed by the script element.
ScriptBlock(race_series_json) == ScriptText1 \o race_series_json \o ScriptText2 \o ScriptText3

\* str.replace(old, new): every occurrence, left to right, without overlap
RECURSIVE ReplaceAll(_, _, _)
ReplaceAll(s, old, new) ==
    LET found == {i \in DOMAIN s : StartsAt(s, i, old)}
    IN  IF found = {} THEN s
        ELSE LET i == Min(found)
             IN  SubSeq(s, 1, i - 1) \o new
                 \o ReplaceAll(SubSeq(s, i + Len(old), Len(s)), old, new)

Contains(s, t) == \E i \in 1..(Len(s) - Len(t) + 1) : StartsAt(s, i, t)

inject_scripts(html_text, race_series_json) ==
    LET script == ScriptBlock(race_series_json)
    IN  IF ~Contains(html_text, S_BodyClose) THEN html_text \o script
        ELSE ReplaceAll(html_text, S_BodyClose, script \o S_NL \o S_BodyClose)

\* re.sub(r"<h1>.*?</h1>", ..., count=1, flags=re.DOTALL): the first <h1> that
\* has a </h1> after it, up to the nearest such </h1>
replace_first_h1(html_text, new_name) ==
    IF Strip(new_name) = <<>> THEN html_text
    ELSE LET opens == {i \in DOMAIN html_text :
                          /\ StartsAt(html_text, i, S_H1Open)
                          /\ \E j \in (i + Len(S_H1Open))..Len(html_text) :
                                 StartsAt(html_text, j, S_H1Close)}
         IN  IF opens = {} THEN html_text
             ELSE LET i == Min(opens)
                      j == Min({j \in (i + Len(S_H1Open))..Len(html_text) :
                                   StartsAt(html_text, j, S_H1Close)})
                  IN  SubSeq(html_text, 1, i - 1)
                      \o S_H1Open \o escape(Strip(new_name)) \o S_H1Close
                      \o SubSeq(html_text, j + Len(S_H1Close), Len(html_text))

-----------------------------------------------------------------------------
(* main, from the parsed records to the written page *)

BuildMeetCards ==
    /\ pc = "results"
    /\ cards' = MeetCards(results)
    /\ cards_html' = build_meet_cards(results)
    /\ pc' = "cards"
    /\ UNCHANGED <<rows, sections, bio, results, YEAR_FILTER, template_html,
                   out_html, race_series, time_str, seconds, error>>

InjectCards ==
    /\ pc = "cards"
    /\ LET r == inject_cards_into_template(template_html, cards_html)
       IN  IF r.raised = "none"
           THEN /\ out_html' = r.value
                /\ pc' = "injected"
                /\ UNCHANGED error
           ELSE /\ pc' = "failed"
                /\ error' = r.raised
                /\ UNCHANGED out_html
    /\ UNCHANGED <<rows, sections, bio, results, YEAR_FILTER, template_html, cards,
                   cards_html, race_series, time_str, seconds>>

ReplaceFirstH1 ==
    /\ pc = "injected"
    /\ LET athlete_name == Strip(OrEmpty(Get(bio, K_AthleteName)))
       IN  out_html' = replace_first_h1(out_html, athlete_name)
    /\ pc' = "named"
    /\ UNCHANGED <<rows, sections, bio, results, YEAR_FILTER, template_html, cards,
                   cards_html, race_series, time_str, seconds, error>>

BuildRaceSeries ==
    /\ pc = "named"
    /\ race_series' = build_race_series(results)
    /\ pc' = "series"
    /\ UNCHANGED <<rows, sections, bio, results, YEAR_FILTER, template_html, cards,
                   cards_html, out_html, time_str, seconds, error>>

InjectScripts ==
    /\ pc = "series"
    /\ out_html' = inject_scripts(out_html, JsonDumps(race_series))
    /\ pc' = "written"
    /\ UNCHANGED <<rows, sections, bio, results, YEAR_FILTER, template_html, cards,
                   cards_html, race_series, time_str, seconds, error>>

NextPage == BuildMeetCards \/ InjectCards \/ ReplaceFirstH1 \/ BuildRaceSeries \/ InjectScripts

-----------------------------------------------------------------------------
(* Inputs of the page stage *)

\* a record of the full header: one value per column, "" for an empty cell
Rec(meet, date, time, grade, place, photo, alt) ==
    (K_MeetName :> meet) @@ (K_Date :> date) @@ (K_Time :> time)
    @@ (K_Grade :> grade) @@ (K_OverallPlace :> place)
    @@ (K_PhotoFileName :> photo) @@ (K_AltText :> alt)

D_slash2025 == <<"3","/","1","/","2","0","2","5">>
D_iso2025 == <<"2","0","2","5","-","0","3","-","0","1">>
D_short24 == <<"3","/","1","/","2","4">>
D_Mar2025 == <<"M","a","r"," ","1"," ","2","0","2","5">>
D_March2024 == <<"M","a","r","c","h"," ","2"," ","2","0","2","4">>
D_span == <<"2","0","2","4","-","2","0","2","5">>
D_Feb30 == <<"2","/","3","0","/","2","0","2","5">>
D_1999 == <<"3","/","1","/","1","9","9","9">>
Y_2025 == <<"2","0","2","5">>
Y_1999 == <<"1","9","9","9">>

RecordPool ==
    { Rec(<<"A","&","B">>, D_slash2025, T_5_23_4, <<"9">>, <<"1">>, <<"a",".","j","p","g">>, <<"x","\"","y">>),
      Rec(<<"<","i",">">>, D_iso2025, T_1_05_00, <<" ">>, <<>>, S_NA, <<>>),
      Rec(<<"C">>, D_short24, T_45, <<>>, <<"2">>, <<>>, <<" ">>),
      Rec(<<>>, D_Mar2025, S_NA, <<>>, <<>>, <<>>, <<>>),
      Rec(<<"E">>, D_March2024, <<>>, <<>>, <<>>, <<>>, <<>>),
      Rec(<<"F">>, <<>>, <<>>, <<>>, <<>>, <<>>, <<>>),
      Rec(<<"G">>, D_span, <<>>, <<>>, <<>>, <<>>, <<>>),
      Rec(<<"H">>, D_Feb30, <<>>, <<>>, <<>>, <<>>, <<>>),
      Rec(<<"I">>, D_1999, <<>>, <<>>, <<>>, <<>>, <<>>) }

N_Al == <<"A","l"," ","<","J","r",">">>

\* the two kinds of CSV file: one with every column and a named athlete, and one
\* with the Date, Time and Overall Place columns only and no Athlete Name
AllColumns ==
    {K_MeetName, K_Date, K_Time, K_Grade, K_OverallPlace, K_PhotoFileName, K_AltText}
FileKinds ==
    { [columns |-> AllColumns, bio |-> (K_AthleteName :> N_Al)],
      [columns |-> {K_Date, K_Time, K_OverallPlace}, bio |-> <<>>] }

\* the record lists of up to n rows of a file of kind f
RecordLists(f, n) ==
    {[i \in DOMAIN rs |-> [k \in f.columns |-> rs[i][k]]] :
        rs \in UNION {[1..k -> RecordPool] : k \in 0..n}}

Seg_Grid == <<"<","d","i","v","\n"," ","i","d","=","\"","m","e","e","t","-","g","r","i","d","\""," ","c",
  "l","a","s","s","=","\"","g","\"",">">>
Seg_Panel == <<"<","d","i","v"," ","i","d","=","\"","p","e","r","f","o","r","m","a","n","c","e","-","p","a",
  "n","e","l","\"",">">>
Seg_Section == <<"<","s","e","c","t","i","o","n"," ","i","d","=","\"","m","e","e","t","-","g","r","i","d","\"",
  ">">>
Seg_Text == <<"o","l","d">>
Seg_H1 == <<"<","h","1",">","N","a","m","e","<","/","h","1",">">>
Seg_Body == S_BodyClose

Segments == {Seg_Grid, Seg_Panel, Seg_Section, Seg_Text, Seg_H1, Seg_Body}

Templates(n) == {Concat(segs) : segs \in UNION {[1..k -> Segments] : k \in 0..n}}

PageTemplate == Seg_H1 \o Seg_Grid \o Seg_Text \o Seg_Panel \o Seg_Body

\* the pages of many record lists on one well-formed template
InitBuild ==
    /\ rows = <<>>
    /\ sections = NoSections
    /\ \E f \in FileKinds :
          /\ bio = f.bio
          /\ results \in RecordLists(f, MaxRecords)
    /\ YEAR_FILTER \in {None, Y_2025, Y_1999}
    /\ template_html = PageTemplate
    /\ cards = <<>>
    /\ cards_html = <<>>
    /\ out_html = <<>>
    /\ race_series = <<>>
    /\ time_str = <<>>
    /\ seconds = Absent
    /\ pc = "results"
    /\ error = "none"

SpecBuild == InitBuild /\ [][NextPage]_vars

\* the pages of few record lists on many templates
InitInject ==
    /\ rows = <<>>
    /\ sections = NoSections
    /\ \E f \in {f \in FileKinds : f.columns = AllColumns} :
          /\ bio = f.bio
          /\ results \in {rs \in RecordLists(f, 1) :
                             \A i \in DOMAIN rs : Get(rs[i], K_Date) = D_slash2025}
    /\ YEAR_FILTER = None
    /\ template_html \in Templates(MaxSegments)
    /\ cards = <<>>
    /\ cards_html = <<>>
    /\ out_html = <<>>
    /\ race_series = <<>>
    /\ time_str = <<>>
    /\ seconds = Absent
    /\ pc = "results"
    /\ error = "none"

SpecInject == InitInject /\ [][NextPage]_vars

-----------------------------------------------------------------------------
(* Properties of the CSV stage *)

HasMarker(name) == \E i \in DOMAIN rows : IsMarkerRow(rows[i], name)
FirstMarker(name) == Min({i \in DOMAIN rows : IsMarkerRow(rows[i], name)})

\* the rows after the Results header row that have a non-blank cell
DataRowIdx ==
    {i \in DOMAIN rows :
        /\ i > FirstMarker(S_Results) + 1
        /\ \E j \in DOMAIN rows[i] : Strip(rows[i][j]) # <<>>}
KthDataRow(k) ==
    CHOOSE i \in DataRowIdx : Cardinality({j \in DataRowIdx : j <= i}) = k

ResultsAsClaimed ==
    /\ DOMAIN bio \subseteq Range(rows[FirstMarker(S_Bio) + 1])
    /\ Len(results) = Cardinality(DataRowIdx)
    /\ \A k \in DOMAIN results :
          results[k] = ZipRow(rows[FirstMarker(S_Results) + 1], rows[KthDataRow(k)])

\* C1 as stated: whenever both markers are present, reading and parsing complete
\* without failure, and the result records are the non-blank rows after the
\* Results header, one record per row, in input order.
C1_ParseTotal ==
    (pc # "rows" /\ HasMarker(S_Bio) /\ HasMarker(S_Results)) =>
        /\ error = "none"
        /\ pc = "results" => ResultsAsClaimed

\* C1 amended: the same, for inputs in which each marker row is followed by at
\* least one more row (its header row).
C1_ParseWithHeaders ==
    (/\ pc # "rows"
     /\ HasMarker(S_Bio) /\ HasMarker(S_Results)
     /\ FirstMarker(S_Bio) < Len(rows)
     /\ FirstMarker(S_Results) < Len(rows)) =>
        /\ error = "none"
        /\ pc = "results" => ResultsAsClaimed

\* parsing finished with two records and a blank row skipped between header and end
C1_Witness ==
    /\ pc = "results"
    /\ Len(results) >= 2
    /\ Len(sections.results_rows) > Len(results)

\* C7: read_sections raises ValueError whenever the Bio marker or the Results
\* marker is missing; when both are present, the sections are cut at the first
\* row of each kind.
C7_Markers ==
    pc # "rows" =>
        /\ (~HasMarker(S_Bio) \/ ~HasMarker(S_Results)) =>
               (pc = "failed" /\ error = "ValueError")
        /\ pc \in {"sections", "bio", "results"} =>
               LET b == FirstMarker(S_Bio)
                   r == FirstMarker(S_Results)
               IN  /\ sections.bio_header = rows[b + 1]
                   /\ sections.bio_rows = SubSeq(rows, b + 2, r - 1)
                   /\ sections.results_header = rows[r + 1]
                   /\ sections.results_rows = SubSeq(rows, r + 2, Len(rows))

\* a file with a Bio marker and no Results marker was rejected
C7_Witness ==
    /\ pc = "failed"
    /\ error = "ValueError"
    /\ HasMarker(S_Bio)
    /\ ~HasMarker(S_Results)

\* sections were cut from a file that has two Results markers
C7_RepeatedMarker ==
    /\ pc = "sections"
    /\ Cardinality({i \in DOMAIN rows : IsMarkerRow(rows[i], S_Results)}) >= 2

-----------------------------------------------------------------------------
(* Properties of parse_time_to_seconds *)

\* The formats of the claim, read off the text: the fields between the colons,
\* each a decimal numeral (blanks around a numeral are ignored).
Fields(t) ==
    LET cut == <<0>> \o [k \in 1..CountColons(t) |->
                    CHOOSE i \in DOMAIN t :
                        /\ t[i] = ":"
                        /\ Cardinality({j \in 1..i : t[j] = ":"}) = k]
                    \o <<Len(t) + 1>>
    IN  [k \in 1..(Len(cut) - 1) |-> Strip(SubSeq(t, cut[k] + 1, cut[k + 1] - 1))]

RECURSIVE Pow10(_)
Pow10(n) == IF n = 0 THEN 1 ELSE 10 * Pow10(n - 1)

IsWhole(f) == f # <<>> /\ AllDigits(f)
RECURSIVE WholeValue(_)
WholeValue(f) ==
    IF f = <<>> THEN 0
    ELSE DigitVal(f[1]) * Pow10(Len(f) - 1) + WholeValue(Tail(f))

\* a numeral with an optional fraction: w, w.f, w. or .f
IsDecimal(f) ==
    \E w, d \in {SubSeq(f, a, b) : a \in 1..(Len(f) + 1), b \in 0..Len(f)} :
        /\ AllDigits(w) /\ AllDigits(d)
        /\ (w # <<>> \/ d # <<>>)
        /\ (f = w \/ f = w \o <<".">> \o d)
DecimalValue(f) ==
    LET wd == CHOOSE p \in {<<SubSeq(f, 1, a), SubSeq(f, a + 2, Len(f))>> : a \in 0..Len(f)} :
                  /\ AllDigits(p[1]) /\ AllDigits(p[2])
                  /\ (f = p[1] \/ f = p[1] \o <<".">> \o p[2])
        frac == wd[2]
        last == {i \in DOMAIN frac : frac[i] # "0"}
    IN  <<WholeValue(wd[1]), SubSeq(frac, 1, IF last = {} THEN 0 ELSE Max(last))>>

ClaimedSeconds(time_arg) ==
    LET t == Strip(OrEmpty(time_arg))
        f == Fields(t)
    IN  IF t = <<>> \/ StrUpper(t) = S_NA THEN Absent
        ELSE IF Len(f) = 3 /\ IsWhole(f[1]) /\ IsWhole(f[2]) /\ IsDecimal(f[3])
        THEN <<3600 * WholeValue(f[1]) + 60 * WholeValue(f[2]) + DecimalValue(f[3])[1],
               DecimalValue(f[3])[2]>>
        ELSE IF Len(f) = 2 /\ IsWhole(f[1]) /\ IsDecimal(f[2])
        THEN <<60 * WholeValue(f[1]) + DecimalValue(f[2])[1], DecimalValue(f[2])[2]>>
        ELSE IF Len(f) = 1 /\ IsDecimal(f[1])
        THEN DecimalValue(f[1])
        ELSE Absent

-----------------------------------------------------------------------------
(* Properties of the cards and of the race series *)

CardsBuilt == pc \in {"cards", "injected", "named", "series", "written", "failed"}
SeriesBuilt == pc \in {"series", "written"}

\* t is the output of HTML escaping: no markup character is left in it, and every
\* ampersand starts one of the entities escaping produces
Entities ==
    { <<"&","a","m","p",";">>, <<"&","l","t",";">>, <<"&","g","t",";">>,
      <<"&","q","u","o","t",";">>, <<"&","#","x","2","7",";">> }
IsEscaped(t) ==
    \A i \in DOMAIN t :
        /\ t[i] \notin {"<", ">", "\"", "'"}
        /\ t[i] = "&" => \E e \in Entities : StartsAt(t, i, e)

\* the text of the first <h1> element of the page
FirstH1Text(t) ==
    LET i == Min({i \in DOMAIN t : StartsAt(t, i, S_H1Open)}) + Len(S_H1Open)
        j == Min({j \in i..Len(t) : StartsAt(t, j, S_H1Close)})
    IN  SubSeq(t, i, j - 1)

\* C2: every text taken from a record or from the bio is HTML-escaped where it is
\* put into the markup: the meet name, the image URL, the alt text, the date, the
\* time, the grade and the place of every card, and the athlete name in the
\* first heading.
C2_AllEscaped ==
    /\ CardsBuilt =>
          \A k \in DOMAIN cards :
              /\ IsEscaped(cards[k].heading)
              /\ IsEscaped(cards[k].img_src)
              /\ IsEscaped(cards[k].img_alt)
              /\ IsEscaped(cards[k].date)
              /\ IsEscaped(cards[k].time)
              /\ IsEscaped(cards[k].grade)
              /\ IsEscaped(cards[k].place)
    /\ (pc \in {"named", "series", "written"} /\ Get(bio, K_AthleteName) # None) =>
          IsEscaped(FirstH1Text(out_html))

\* date holds the four-digit number year: the digits of year, with no digit
\* before or after them
ContainsYear(date, year) ==
    \E i \in DOMAIN date :
        /\ StartsAt(date, i, year)
        /\ (i = 1 \/ ~IsDigit(date[i - 1]))
        /\ (i + Len(year) > Len(date) \/ ~IsDigit(date[i + Len(year)]))

\* the first number of date that reads 20dd and stands alone (no letter, digit or
\* underscore beside it) is year
FirstSeasonIs(date, year) ==
    LET season == {i \in 1..(Len(date) - 3) :
                      /\ date[i] = "2" /\ date[i + 1] = "0"
                      /\ IsDigit(date[i + 2]) /\ IsDigit(date[i + 3])
                      /\ (i = 1 \/ ~IsWordChar(date[i - 1]))
                      /\ (i + 3 = Len(date) \/ ~IsWordChar(date[i + 4]))}
    IN  season # {} /\ SubSeq(date, Min(season), Min(season) + 3) = year

DateField(r) == Strip(OrEmpty(Get(r, K_Date)))
IncludedAsClaimed(r) == YEAR_FILTER = None \/ ContainsYear(DateField(r), YEAR_FILTER)
IncludedAsAmended(r) == YEAR_FILTER = None \/ FirstSeasonIs(DateField(r), YEAR_FILTER)

\* what a record shows in a card and in a point
Shown(r) == <<safe(Get(r, K_Date)), safe(Get(r, K_MeetName)), safe(Get(r, K_Time))>>
Times(seq, x) == Cardinality({i \in DOMAIN seq : seq[i] = x})

\* the cards are those of the records of included, in order, and the points are
\* those of the same records, each as often as it is in included
OutputsShow(included) ==
    LET shown == [i \in DOMAIN included |-> Shown(included[i])]
        carded == [i \in DOMAIN cards |->
                      <<cards[i].date, cards[i].heading, cards[i].time>>]
        plotted == [i \in DOMAIN race_series |->
                       <<race_series[i].date, race_series[i].meet, race_series[i].time>>]
    IN  /\ CardsBuilt =>
              carded = [i \in DOMAIN shown |->
                           <<escape(shown[i][1]), escape(shown[i][2]), escape(shown[i][3])>>]
        /\ SeriesBuilt =>
              /\ Len(plotted) = Len(shown)
              /\ \A x \in Range(shown) \cup Range(plotted) : Times(plotted, x) = Times(shown, x)

\* C3 as stated: with a year filter, the cards and the race series hold exactly
\* the records whose Date contains a four-digit year equal to the filter, the same
\* records in both; without a filter, every record is in both.
C3_YearFilter == OutputsShow(SelectSeq(results, IncludedAsClaimed))

\* C3 amended: with a year filter, the cards and the race series hold exactly the
\* records in whose Date the first stand-alone number of the form 20dd equals the
\* filter, the same records in both; without a filter, every record is in both.
C3_SeasonFilter == OutputsShow(SelectSeq(results, IncludedAsAmended))

\* a 2025 filter kept one of two records, in the cards and in the series
C3_Witness ==
    /\ pc = "written"
    /\ YEAR_FILTER = Y_2025
    /\ Len(results) = 2
    /\ DateField(results[1]) = D_March2024
    /\ DateField(results[2]) = D_slash2025
    /\ Len(cards) = 1
    /\ Len(race_series) = 1
    /\ race_series[1].date = D_slash2025

\* the calendar date of a point, NoDate when its date does not parse
CalendarDate(pt) == FirstParse(pt.date, 1)
NotAfter(a, b) ==
    \/ a.y < b.y
    \/ a.y = b.y /\ a.m < b.m
    \/ a.y = b.y /\ a.m = b.m /\ a.d <= b.d

\* the points of the records that pass the filter, in input order
InputPoints ==
    LET f == SelectSeq(results, PassesYearFilter)
    IN  [i \in DOMAIN f |->
            [date |-> safe(Get(f[i], K_Date)), meet |-> safe(Get(f[i], K_MeetName)),
             time |-> safe(Get(f[i], K_Time)),
             seconds |-> parse_time_to_seconds(safe(Get(f[i], K_Time)))]]

\* the points of seq whose calendar date is dt, in the order of seq
OnDay(seq, dt) == SelectSeq(seq, LAMBDA pt : CalendarDate(pt) = dt)

\* C5: the race series is in ascending order of calendar date, the points whose
\* date does not parse come after all the others, and points of the same date
\* (or all without a date) keep their input order.
C5_SeriesOrder ==
    SeriesBuilt =>
        LET days == [i \in DOMAIN race_series |-> CalendarDate(race_series[i])]
        IN  /\ \A i, j \in DOMAIN race_series :
                  (i < j /\ days[j] # NoDate) =>
                      (days[i] # NoDate /\ NotAfter(days[i], days[j]))
            /\ Len(race_series) = Len(InputPoints)
            /\ \A dt \in Range(days) : OnDay(race_series, dt) = OnDay(InputPoints, dt)

\* a record without a date, first in the input, is last in the series
C5_Witness ==
    /\ pc = "series"
    /\ Len(results) = 2
    /\ Len(race_series) = 2
    /\ Get(results[1], K_Date) = <<>>
    /\ DateField(results[2]) = D_Mar2025
    /\ CalendarDate(race_series[1]) = [y |-> 2025, m |-> 3, d |-> 1]
    /\ CalendarDate(race_series[2]) = NoDate

\* two records of the same day, written differently, kept their input order
C5_SameDayKept ==
    /\ pc = "series"
    /\ Len(race_series) = 2
    /\ race_series[1].date = D_Mar2025
    /\ race_series[2].date = D_iso2025

Occurrences(t, part) == Cardinality({i \in DOMAIN t : StartsAt(t, i, part)})
S_Article == <<"<","a","r","t","i","c","l","e">>

\* C6: when N >= 1 records pass the year filter there are N cards, card k has the
\* identifiers race-details-k and meet-k-title, its toggle controls its own
\* panel, and no identifier belongs to two cards.
C6_CardIds ==
    (CardsBuilt /\ SelectSeq(results, PassesYearFilter) # <<>>) =>
        /\ Len(cards) = Len(SelectSeq(results, PassesYearFilter))
        /\ Occurrences(cards_html, S_Article) = Len(cards)
        /\ \A k \in DOMAIN cards :
              /\ cards[k].panel_id = S_RaceDetails \o <<Digits[k + 1]>>
              /\ cards[k].aria_controls = cards[k].panel_id
              /\ cards[k].heading_id = S_Meet \o <<Digits[k + 1]>> \o S_Title
              /\ cards[k].labelledby = cards[k].heading_id
        /\ \A j, k \in DOMAIN cards :
              j # k => {cards[j].panel_id, cards[j].heading_id}
                           \cap {cards[k].panel_id, cards[k].heading_id} = {}

\* two cards were built
C6_Witness ==
    /\ pc = "cards"
    /\ Len(cards) = 2
    /\ cards[2].panel_id = S_RaceDetails \o <<"2">>

-----------------------------------------------------------------------------
(* Properties of the template stage *)

HasTag(t, idtext) == \E i \in DOMAIN t : TagEndAt(t, idtext, i) # 0
FirstTag(t, idtext) == Min({i \in DOMAIN t : TagEndAt(t, idtext, i) # 0})
FirstTagEnd(t, idtext) == TagEndAt(t, idtext, FirstTag(t, idtext))

\* in the page: the cards, between newlines, right after the first meet-grid tag;
\* no performance-panel tag before the cards; after the cards the template from
\* its first performance-panel tag on, and nothing else; the page starts as the
\* template does, up to the meet-grid tag
CardsInPlace ==
    LET g == FirstTagEnd(out_html, GridId)
        panel == SubSeq(template_html, FirstTag(template_html, PanelId), Len(template_html))
    IN  /\ SubSeq(out_html, 1, g) = SubSeq(template_html, 1, FirstTagEnd(template_html, GridId))
        /\ StartsAt(out_html, g + 1, S_NL \o cards_html \o S_NL)
        /\ \A i \in 1..g : TagEndAt(out_html, PanelId, i) = 0
        /\ SubSeq(out_html, g + Len(cards_html) + 3, Len(out_html)) = panel

\* C4 as stated: for every template with a meet-grid tag and a performance-panel
\* tag, the page has the cards right after the meet-grid tag and before the
\* performance-panel tag, and the template from the performance-panel tag on
\* unchanged and once.
C4_CardsInPlace ==
    (pc # "results" /\ pc # "cards"
     /\ HasTag(template_html, GridId) /\ HasTag(template_html, PanelId)) =>
        /\ pc # "failed"
        /\ pc = "injected" => CardsInPlace

\* C4 amended: the same, for the templates whose first performance-panel tag
\* starts after the end of the first meet-grid tag; the cards stand between two
\* newlines.
C4_CardsInPlaceInOrder ==
    (pc # "results" /\ pc # "cards"
     /\ HasTag(template_html, GridId) /\ HasTag(template_html, PanelId)
     /\ FirstTag(template_html, PanelId) > FirstTagEnd(template_html, GridId)) =>
        /\ pc # "failed"
        /\ pc = "injected" => CardsInPlace

\* cards replaced the text between the grid tag and the panel
C4_Witness ==
    /\ pc = "injected"
    /\ cards # <<>>
    /\ template_html = Seg_Grid \o Seg_Text \o Seg_Panel \o Seg_Body
    /\ out_html = Seg_Grid \o S_NL \o cards_html \o S_NL \o Seg_Panel \o Seg_Body

\* C8: without a meet-grid element the injection fails with ValueError; with a
\* meet-grid element and no performance-panel element it fails with ValueError;
\* either way no page is returned.
C8_MissingAnchor ==
    (pc # "results" /\ pc # "cards"
     /\ (~HasTag(template_html, GridId) \/ ~HasTag(template_html, PanelId))) =>
        /\ pc = "failed"
        /\ error = "ValueError"
        /\ out_html = <<>>

\* a template with the grid and without the panel was rejected
C8_Witness ==
    /\ pc = "failed"
    /\ error = "ValueError"
    /\ HasTag(template_html, GridId)
    /\ ~HasTag(template_html, PanelId)

\* the page as it was handed to inject_scripts
PageBeforeScripts ==
    replace_first_h1(inject_cards_into_template(template_html, cards_html).value,
                     Strip(OrEmpty(Get(bio, K_AthleteName))))

\* C9: the behavior block is in the page once: right before the closing body
\* marker when the page has one, at the very end when it has none; the rest of
\* the page is unchanged.
C9_ScriptsOnce ==
    pc = "written" =>
        LET page == PageBeforeScripts
            block == ScriptBlock(JsonDumps(race_series))
        IN  IF Contains(page, S_BodyClose)
            THEN \E i \in DOMAIN page :
                    /\ StartsAt(page, i, S_BodyClose)
                    /\ out_html = SubSeq(page, 1, i - 1) \o block \o S_NL
                                      \o SubSeq(page, i, Len(page))
            ELSE out_html = page \o block

=============================================================================
